---- MODULE Spec2Model ----
(***************************************************************************)
(* Model of the Kurtosis estimator of the `average` crate                  *)
(* (src/src/moments/kurtosis.rs) and of the estimator chain it owns        *)
(* (Skewness -> Variance -> Mean).                                         *)
(*                                                                         *)
(* f64 values are modelled as exact rationals in lowest terms, extended    *)
(* with NaN and the two infinities (den = 0), so that every division by    *)
(* zero of the code has the outcome IEEE-754 gives it.  Rounding is not    *)
(* modelled: equalities between estimators are equalities "in exact        *)
(* arithmetic".  Signed zeros are not distinguished.                       *)
(***************************************************************************)
EXTENDS Integers, Sequences, FiniteSets, TLC

\* The number of observations a run adds, over both estimators.
MaxLen == 4

\* The observations fed to add().
Obs == {-1, 0, 2}

----------------------------------------------------------------------------
(* f64: [num, den]; den > 0 a finite value num/den in lowest terms,        *)
(* den = 0: num = 0 is NaN, num = 1 is +inf, num = -1 is -inf.             *)

Abs(i) == IF i < 0 THEN -i ELSE i

Sgn(i) == IF i < 0 THEN -1 ELSE IF i = 0 THEN 0 ELSE 1

RECURSIVE GCD(_, _)
GCD(i, j) == IF j = 0 THEN i ELSE GCD(j, i % j)

Norm(n, d) ==
    LET g == GCD(Abs(n), d)
    IN  [num |-> Sgn(n) * (Abs(n) \div g), den |-> d \div g]

NaN == [num |-> 0, den |-> 0]

Inf(s) == [num |-> s, den |-> 0]

Zero == [num |-> 0, den |-> 1]

\* An integer literal (1., 3., 6., ...) or an observation as an f64.
Lit(i) == [num |-> i, den |-> 1]

IsNaN(x) == x.den = 0 /\ x.num = 0

IsInf(x) == x.den = 0 /\ x.num # 0

IsFinite(x) == x.den > 0

FNeg(x) == [num |-> -x.num, den |-> x.den]

FAdd(x, y) ==
    IF IsNaN(x) \/ IsNaN(y) THEN NaN
    ELSE IF IsInf(x) THEN (IF IsInf(y) /\ y.num # x.num THEN NaN ELSE x)
    ELSE IF IsInf(y) THEN y
    ELSE LET g == GCD(x.den, y.den)
         IN  Norm(x.num * (y.den \div g) + y.num * (x.den \div g),
                  (x.den \div g) * y.den)

FSub(x, y) == FAdd(x, FNeg(y))

FMul(x, y) ==
    IF IsNaN(x) \/ IsNaN(y) THEN NaN
    ELSE IF IsInf(x) \/ IsInf(y)
         THEN (IF x.num = 0 \/ y.num = 0 THEN NaN ELSE Inf(Sgn(x.num) * Sgn(y.num)))
    ELSE LET g1 == GCD(Abs(x.num), y.den)
             g2 == GCD(Abs(y.num), x.den)
         IN  IF x.num = 0 \/ y.num = 0 THEN Zero
             ELSE [num |-> Sgn(x.num) * Sgn(y.num)
                             * (Abs(x.num) \div g1) * (Abs(y.num) \div g2),
                   den |-> (x.den \div g2) * (y.den \div g1)]

FDiv(x, y) ==
    IF IsNaN(x) \/ IsNaN(y) THEN NaN
    ELSE IF IsInf(y) THEN (IF IsInf(x) THEN NaN ELSE Zero)
    ELSE IF y.num = 0 THEN (IF x.num = 0 THEN NaN ELSE Inf(Sgn(x.num)))
    ELSE IF IsInf(x) THEN Inf(Sgn(x.num) * Sgn(y.num))
    ELSE FMul(x, [num |-> Sgn(y.num) * y.den, den |-> Abs(y.num)])

\* The == of f64: false whenever an operand is NaN.
FEq(x, y) == ~IsNaN(x) /\ ~IsNaN(y) /\ x = y

\* The < of f64 on two values: false whenever an operand is NaN.
FLt(x, y) ==
    /\ ~IsNaN(x) /\ ~IsNaN(y) /\ x # y
    /\ IF IsInf(x) THEN x.num < 0
       ELSE IF IsInf(y) THEN y.num > 0
       ELSE x.num * y.den < y.num * x.den

\* f64::approx_from(u64).unwrap(): exact for the counts of the model.
approx_from(n) == Lit(n)

----------------------------------------------------------------------------
(* Mean: count n and running mean avg.                                     *)

Mean_new == [avg |-> Zero, n |-> 0]

Mean_increment(self) == [self EXCEPT !.n = self.n + 1]

Mean_add_inner(self, delta_n) == [self EXCEPT !.avg = FAdd(self.avg, delta_n)]

Mean_is_empty(self) == self.n = 0

Mean_len(self) == self.n

Mean_mean(self) == IF self.n = 0 THEN Zero ELSE self.avg

Mean_merge(self, other) ==
    LET len_total == self.n + other.n
        delta     == FSub(other.avg, self.avg)
    IN  IF len_total = 0 THEN self
        ELSE [avg |-> FAdd(self.avg,
                           FDiv(FMul(delta, approx_from(other.n)),
                                approx_from(len_total))),
              n   |-> len_total]

----------------------------------------------------------------------------
(* Variance: owns a Mean, adds sum_2.                                      *)

Variance_new == [avg |-> Mean_new, sum_2 |-> Zero]

Variance_increment(self) == [self EXCEPT !.avg = Mean_increment(self.avg)]

Variance_is_empty(self) == Mean_is_empty(self.avg)

Variance_len(self) == Mean_len(self.avg)

Variance_mean(self) == Mean_mean(self.avg)

\* The value add_inner writes to sum_2 (the count is already incremented).
Variance_add_inner_sum_2(self, delta, delta_n) ==
    LET n == approx_from(Variance_len(self))
    IN  FAdd(self.sum_2, FMul(FMul(delta, delta_n), FSub(n, Lit(1))))

Variance_add_inner(self, delta, delta_n) ==
    [avg   |-> Mean_add_inner(self.avg, delta_n),
     sum_2 |-> Variance_add_inner_sum_2(self, delta, delta_n)]

Variance_merge(self, other) ==
    LET len_self  == approx_from(Variance_len(self))
        len_other == approx_from(Variance_len(other))
        len_total == FAdd(len_self, len_other)
        delta     == FSub(Variance_mean(other), Variance_mean(self))
    IN  IF Variance_is_empty(other) THEN self
        ELSE IF Variance_is_empty(self) THEN other
        ELSE [avg   |-> Mean_merge(self.avg, other.avg),
              sum_2 |-> FAdd(FAdd(self.sum_2, other.sum_2),
                             FDiv(FMul(FMul(FMul(delta, delta), len_self), len_other),
                                  len_total))]

Variance_sample_variance(self) ==
    IF Variance_len(self) < 2 THEN Zero
    ELSE FDiv(self.sum_2, FSub(approx_from(Variance_len(self)), Lit(1)))

Variance_population_variance(self) ==
    IF Variance_len(self) = 0 THEN Zero
    ELSE FDiv(self.sum_2, approx_from(Variance_len(self)))

\* error_mean() is sqrt(sample_variance()/n); the model holds its square,
\* which is 0 exactly when error_mean() is and NaN exactly when it is.
Variance_error_mean_sq(self) ==
    IF Variance_len(self) < 2 THEN Zero
    ELSE FDiv(Variance_sample_variance(self), approx_from(Variance_len(self)))

----------------------------------------------------------------------------
(* Skewness: owns a Variance, adds sum_3.                                  *)

Skewness_new == [avg |-> Variance_new, sum_3 |-> Zero]

Skewness_increment(self) == [self EXCEPT !.avg = Variance_increment(self.avg)]

Skewness_is_empty(self) == Variance_is_empty(self.avg)

Skewness_len(self) == Variance_len(self.avg)

Skewness_mean(self) == Variance_mean(self.avg)

Skewness_sample_variance(self) == Variance_sample_variance(self.avg)

Skewness_population_variance(self) == Variance_population_variance(self.avg)

Skewness_error_mean_sq(self) == Variance_error_mean_sq(self.avg)

\* The value add_inner writes to sum_3, read before sum_2 is updated.
Skewness_add_inner_sum_3(self, delta, delta_n) ==
    LET n    == approx_from(Skewness_len(self))
        term == FMul(FMul(delta, delta_n), FSub(n, Lit(1)))
    IN  FAdd(self.sum_3,
             FSub(FMul(FMul(term, delta_n), FSub(n, Lit(2))),
                  FMul(FMul(Lit(3), delta_n), self.avg.sum_2)))

Skewness_add_inner(self, delta, delta_n) ==
    [avg   |-> Variance_add_inner(self.avg, delta, delta_n),
     sum_3 |-> Skewness_add_inner_sum_3(self, delta, delta_n)]

Skewness_merge(self, other) ==
    LET len_self  == approx_from(Skewness_len(self))
        len_other == approx_from(Skewness_len(other))
        len_total == FAdd(len_self, len_other)
        delta     == FSub(Skewness_mean(other), Skewness_mean(self))
        delta_n   == FDiv(delta, len_total)
        cube      == FDiv(FMul(FMul(FMul(FMul(FMul(delta, delta), delta),
                                         len_self), len_other),
                               FSub(len_self, len_other)),
                          FMul(len_total, len_total))
        cross     == FMul(FMul(Lit(3), delta_n),
                          FSub(FMul(len_self, other.avg.sum_2),
                               FMul(len_other, self.avg.sum_2)))
    IN  IF Skewness_len(self) + Skewness_len(other) = 0 THEN self
        ELSE [avg   |-> Variance_merge(self.avg, other.avg),
              sum_3 |-> FAdd(self.sum_3, FAdd(FAdd(other.sum_3, cube), cross))]

\* skewness() is sqrt(n) * sum_3 / sum_2^1.5; the model holds its signed
\* square sgn(sum_3) * n * sum_3^2 / sum_2^3, an injective image of it.
Skewness_skewness_sq(self) ==
    LET n     == approx_from(Skewness_len(self))
        sum_2 == self.avg.sum_2
        sq    == FDiv(FMul(n, FMul(self.sum_3, self.sum_3)),
                      FMul(FMul(sum_2, sum_2), sum_2))
    IN  IF FEq(sum_2, Zero) \/ Skewness_len(self) < 2 THEN Zero
        ELSE IF FLt(self.sum_3, Zero) THEN FNeg(sq) ELSE sq

----------------------------------------------------------------------------
(* Kurtosis: owns a Skewness, adds sum_4.                                  *)

Kurtosis_new == [avg |-> Skewness_new, sum_4 |-> Zero]

Kurtosis_increment_forgotten(self) == self

Kurtosis_increment(self) == [self EXCEPT !.avg = Skewness_increment(self.avg)]

Kurtosis_is_empty(self) == Skewness_is_empty(self.avg)

Kurtosis_mean(self) == Skewness_mean(self.avg)

Kurtosis_len(self) == Skewness_len(self.avg)

Kurtosis_sample_variance(self) == Skewness_sample_variance(self.avg)

Kurtosis_population_variance(self) == Skewness_population_variance(self.avg)

Kurtosis_error_mean_sq(self) == Skewness_error_mean_sq(self.avg)

Kurtosis_skewness_sq(self) == Skewness_skewness_sq(self.avg)

Kurtosis_add_inner_sum_4_coeff(self, delta, delta_n) ==
    LET n          == approx_from(Kurtosis_len(self))
        term       == FMul(FMul(delta, delta_n), FSub(n, Lit(1)))
        delta_n_sq == FMul(delta_n, delta_n)
    IN  FAdd(self.sum_4,
             FSub(FAdd(FMul(FMul(term, delta_n_sq),
                            FAdd(FSub(FMul(n, n), FMul(Lit(3), n)), Lit(3))),
                       FMul(FMul(Lit(3), delta_n_sq), self.avg.avg.sum_2)),
                  FMul(FMul(Lit(4), delta_n), self.avg.sum_3)))

\* The value `self.sum_4 +=` writes in add_inner, read from the state in
\* which the count is incremented and nothing else is updated yet.
Kurtosis_add_inner_sum_4(self, delta, delta_n) ==
    LET n          == approx_from(Kurtosis_len(self))
        term       == FMul(FMul(delta, delta_n), FSub(n, Lit(1)))
        delta_n_sq == FMul(delta_n, delta_n)
    IN  FAdd(self.sum_4,
             FSub(FAdd(FMul(FMul(term, delta_n_sq),
                            FAdd(FSub(FMul(n, n), FMul(Lit(3), n)), Lit(3))),
                       FMul(FMul(Lit(6), delta_n_sq), self.avg.avg.sum_2)),
                  FMul(FMul(Lit(4), delta_n), self.avg.sum_3)))

Kurtosis_add_inner(self, delta, delta_n) ==
    [avg   |-> Skewness_add_inner(self.avg, delta, delta_n),
     sum_4 |-> Kurtosis_add_inner_sum_4(self, delta, delta_n)]

Kurtosis_add_raw_delta(self, x) ==
    LET inc == Kurtosis_increment(self)
        n   == approx_from(Kurtosis_len(inc))
    IN  Kurtosis_add_inner(inc, x, FDiv(x, n))

Kurtosis_add(self, x) ==
    LET delta == FSub(x, Kurtosis_mean(self))
        inc   == Kurtosis_increment(self)
        n     == approx_from(Kurtosis_len(inc))
    IN  Kurtosis_add_inner(inc, delta, FDiv(delta, n))

Kurtosis_kurtosis_unguarded(self) ==
    LET n     == approx_from(Kurtosis_len(self))
        sum_2 == self.avg.avg.sum_2
    IN  FSub(FDiv(FMul(n, self.sum_4), FMul(sum_2, sum_2)), Lit(3))

Kurtosis_kurtosis_no_excess(self) ==
    LET n     == approx_from(Kurtosis_len(self))
        sum_2 == self.avg.avg.sum_2
    IN  IF FEq(self.sum_4, Zero) THEN Zero
        ELSE FDiv(FMul(n, self.sum_4), FMul(sum_2, sum_2))

Kurtosis_kurtosis(self) ==
    LET n     == approx_from(Kurtosis_len(self))
        sum_2 == self.avg.avg.sum_2
    IN  IF FEq(self.sum_4, Zero) THEN Zero
        ELSE FSub(FDiv(FMul(n, self.sum_4), FMul(sum_2, sum_2)), Lit(3))

\* let delta_n = delta / len_total;
Kurtosis_merge_delta_n(self, other) ==
    LET len_total == FAdd(approx_from(Kurtosis_len(self)),
                          approx_from(Kurtosis_len(other)))
        delta     == FSub(Kurtosis_mean(other), Kurtosis_mean(self))
    IN  FDiv(delta, len_total)

\* delta * delta_n*delta_n_sq * len_self*len_other
\*   * (len_self*len_self - len_self*len_other + len_other*len_other)
Kurtosis_merge_term_4(self, other) ==
    LET len_self   == approx_from(Kurtosis_len(self))
        len_other  == approx_from(Kurtosis_len(other))
        delta      == FSub(Kurtosis_mean(other), Kurtosis_mean(self))
        delta_n    == Kurtosis_merge_delta_n(self, other)
        delta_n_sq == FMul(delta_n, delta_n)
    IN  FMul(FMul(FMul(FMul(FMul(delta, delta_n), delta_n_sq), len_self), len_other),
             FAdd(FSub(FMul(len_self, len_self), FMul(len_self, len_other)),
                  FMul(len_other, len_other)))

Kurtosis_merge_term_2_swapped(self, other) ==
    LET len_self   == approx_from(Kurtosis_len(self))
        len_other  == approx_from(Kurtosis_len(other))
        delta_n    == Kurtosis_merge_delta_n(self, other)
        delta_n_sq == FMul(delta_n, delta_n)
    IN  FMul(FMul(Lit(6), delta_n_sq),
             FAdd(FMul(FMul(len_self, len_self), self.avg.avg.sum_2),
                  FMul(FMul(len_other, len_other), other.avg.avg.sum_2)))

\* 6.*delta_n_sq * (len_self*len_self * other.sum_2 + len_other*len_other * self.sum_2)
Kurtosis_merge_term_2(self, other) ==
    LET len_self   == approx_from(Kurtosis_len(self))
        len_other  == approx_from(Kurtosis_len(other))
        delta_n    == Kurtosis_merge_delta_n(self, other)
        delta_n_sq == FMul(delta_n, delta_n)
    IN  FMul(FMul(Lit(6), delta_n_sq),
             FAdd(FMul(FMul(len_self, len_self), other.avg.avg.sum_2),
                  FMul(FMul(len_other, len_other), self.avg.avg.sum_2)))

Kurtosis_merge_term_3_one_len(self, other) ==
    LET len_self  == approx_from(Kurtosis_len(self))
        delta_n   == Kurtosis_merge_delta_n(self, other)
    IN  FMul(FMul(Lit(4), delta_n),
             FSub(FMul(len_self, other.avg.sum_3), FMul(len_self, self.avg.sum_3)))

\* 4.*delta_n * (len_self * other.sum_3 - len_other * self.sum_3)
Kurtosis_merge_term_3(self, other) ==
    LET len_self  == approx_from(Kurtosis_len(self))
        len_other == approx_from(Kurtosis_len(other))
        delta_n   == Kurtosis_merge_delta_n(self, other)
    IN  FMul(FMul(Lit(4), delta_n),
             FSub(FMul(len_self, other.avg.sum_3), FMul(len_other, self.avg.sum_3)))

Kurtosis_merge(self, other) ==
    [avg   |-> Skewness_merge(self.avg, other.avg),
     sum_4 |-> FAdd(self.sum_4,
                    FAdd(FAdd(FAdd(other.sum_4, Kurtosis_merge_term_4(self, other)),
                              Kurtosis_merge_term_2(self, other)),
                         Kurtosis_merge_term_3(self, other)))]

\* FromIterator: a fresh estimator with the elements of xs added in order.
RECURSIVE from_iter(_)
from_iter(xs) ==
    IF xs = <<>> THEN Kurtosis_new
    ELSE Kurtosis_add(from_iter(SubSeq(xs, 1, Len(xs) - 1)), Lit(xs[Len(xs)]))

----------------------------------------------------------------------------
(* The state: two estimators a and b, with the observations each stands    *)
(* for.  a is mutated by a.add(x) and a.merge(&b), b by b.add(x).          *)

(* pc and loc are the position and the locals of an add that runs         *)
(* statement by statement (StepSpec); under Spec every operation is one    *)
(* step and they stay idle.                                                *)

VARIABLES a, b, xa, xb, merged, op, pre, pc, loc

vars == <<a, b, xa, xb, merged, op, pre, pc, loc>>

\* The locals of add and add_inner before any is assigned.
NoLocals == [x |-> Zero, delta |-> Zero, n |-> Zero, delta_n |-> Zero]

\* The state an operation started from.
Snapshot == [a |-> a, b |-> b, xa |-> xa, xb |-> xb, merged |-> merged]

Init ==
    /\ a = Kurtosis_new
    /\ b = Kurtosis_new
    /\ xa = <<>>
    /\ xb = <<>>
    /\ merged = FALSE
    /\ op = "new"
    /\ pre = Snapshot
    /\ pc = "idle"
    /\ loc = NoLocals

\* a.add(x)
AddA(x) ==
    /\ Len(xa) + Len(xb) < MaxLen
    /\ a' = Kurtosis_add(a, Lit(x))
    /\ xa' = Append(xa, x)
    /\ op' = "add_a"
    /\ pre' = Snapshot
    /\ UNCHANGED <<b, xb, merged, pc, loc>>

\* b.add(x)
AddB(x) ==
    /\ Len(xa) + Len(xb) < MaxLen
    /\ b' = Kurtosis_add(b, Lit(x))
    /\ xb' = Append(xb, x)
    /\ op' = "add_b"
    /\ pre' = Snapshot
    /\ UNCHANGED <<a, xa, merged, pc, loc>>

\* a.merge(&b)
Merge ==
    /\ Len(xa) + Len(xb) <= MaxLen
    /\ a' = Kurtosis_merge(a, b)
    /\ xa' = xa \o xb
    /\ merged' = TRUE
    /\ op' = "merge"
    /\ pre' = Snapshot
    /\ UNCHANGED <<b, xb, pc, loc>>

Next ==
    \/ \E x \in Obs : AddA(x)
    \/ \E x \in Obs : AddB(x)
    \/ Merge

Spec == Init /\ [][Next]_vars

----------------------------------------------------------------------------
(* a.add(x) statement by statement.                                        *)

\* The order in which add and the add_inner chain run their statements,
\* outermost power-sum first.
AddOrderInnerFirst == <<"delta", "increment", "n", "sum_3", "sum_2", "mean", "sum_4">>

AddOrder == <<"delta", "increment", "n", "sum_4", "sum_3", "sum_2", "mean">>

\* The statement after `at`, "idle" after the last one.
After(at) ==
    LET i == CHOOSE j \in 1..Len(AddOrder) : AddOrder[j] = at
    IN  IF i = Len(AddOrder) THEN "idle" ELSE AddOrder[i + 1]

\* Leaving statement `at`: the add returns after the last one.
Leave(at) ==
    /\ pc' = After(at)
    /\ IF After(at) = "idle"
       THEN /\ xa' = Append(xa, loc.x.num)
            /\ op' = "add_a"
       ELSE UNCHANGED <<xa, op>>
    /\ UNCHANGED <<b, xb, merged, pre>>

\* The caller enters a.add(x).
Call(x) ==
    /\ pc = "idle"
    /\ Len(xa) < MaxLen
    /\ pc' = AddOrder[1]
    /\ loc' = [NoLocals EXCEPT !.x = Lit(x)]
    /\ op' = "call"
    /\ pre' = Snapshot
    /\ UNCHANGED <<a, b, xa, xb, merged>>

\* let delta = x - self.mean();
StepDelta ==
    /\ pc = "delta"
    /\ loc' = [loc EXCEPT !.delta = FSub(loc.x, Kurtosis_mean(a))]
    /\ UNCHANGED a
    /\ Leave("delta")

\* self.increment();
StepIncrement ==
    /\ pc = "increment"
    /\ a' = Kurtosis_increment(a)
    /\ UNCHANGED loc
    /\ Leave("increment")

\* let n = f64::approx_from(self.len()).unwrap(); and the argument delta/n
StepN ==
    /\ pc = "n"
    /\ loc' = [loc EXCEPT !.n = approx_from(Kurtosis_len(a)),
                          !.delta_n = FDiv(loc.delta, approx_from(Kurtosis_len(a)))]
    /\ UNCHANGED a
    /\ Leave("n")

\* self.sum_4 += ...;
StepSum4 ==
    /\ pc = "sum_4"
    /\ a' = [a EXCEPT !.sum_4 = Kurtosis_add_inner_sum_4(a, loc.delta, loc.delta_n)]
    /\ UNCHANGED loc
    /\ Leave("sum_4")

\* self.avg.add_inner(delta, delta_n): the Skewness writes sum_3,
StepSum3 ==
    /\ pc = "sum_3"
    /\ a' = [a EXCEPT !.avg.sum_3 = Skewness_add_inner_sum_3(a.avg, loc.delta, loc.delta_n)]
    /\ UNCHANGED loc
    /\ Leave("sum_3")

\* the Variance writes sum_2,
StepSum2 ==
    /\ pc = "sum_2"
    /\ a' = [a EXCEPT !.avg.avg.sum_2 =
                          Variance_add_inner_sum_2(a.avg.avg, loc.delta, loc.delta_n)]
    /\ UNCHANGED loc
    /\ Leave("sum_2")

\* and the Mean writes the mean.
StepMean ==
    /\ pc = "mean"
    /\ a' = [a EXCEPT !.avg.avg.avg = Mean_add_inner(a.avg.avg.avg, loc.delta_n)]
    /\ UNCHANGED loc
    /\ Leave("mean")

StepNext ==
    \/ \E x \in Obs : Call(x)
    \/ StepDelta
    \/ StepIncrement
    \/ StepN
    \/ StepSum4
    \/ StepSum3
    \/ StepSum2
    \/ StepMean

StepSpec == Init /\ [][StepNext]_vars

----------------------------------------------------------------------------
(* Reference values, computed in two passes from the observations.         *)

RECURSIVE SeqSum(_)
SeqSum(xs) == IF xs = <<>> THEN 0 ELSE xs[Len(xs)] + SeqSum(SubSeq(xs, 1, Len(xs) - 1))

\* The arithmetic mean of xs, 0 for the empty sequence.
ArithMean(xs) == IF xs = <<>> THEN Zero ELSE Norm(SeqSum(xs), Len(xs))

RECURSIVE FPow(_, _)
FPow(x, k) == IF k = 0 THEN Lit(1) ELSE FMul(x, FPow(x, k - 1))

\* Sum over i in 1..upto of (xs[i] - m)^k.
RECURSIVE DevSum(_, _, _, _)
DevSum(xs, m, k, upto) ==
    IF upto = 0 THEN Zero
    ELSE FAdd(DevSum(xs, m, k, upto - 1), FPow(FSub(Lit(xs[upto]), m), k))

\* Sum of (x_i - m)^k with m the mean of the whole sequence.
CentralSum(xs, k) == DevSum(xs, ArithMean(xs), k, Len(xs))

\* Sum of (x_i - mu_i)^k with mu_i the mean of the first i - 1 + incl
\* observations: the running mean before (incl = 0) or after (incl = 1)
\* x_i was added.
RECURSIVE RunningSum(_, _, _, _)
RunningSum(xs, k, incl, upto) ==
    IF upto = 0 THEN Zero
    ELSE FAdd(RunningSum(xs, k, incl, upto - 1),
              FPow(FSub(Lit(xs[upto]),
                        ArithMean(SubSeq(xs, 1, upto - 1 + incl))), k))

IsConstant(xs) == \A i \in 1..Len(xs) : xs[i] = xs[1]

\* x >= 0 as f64 comparison.
FNonNeg(x) == ~IsNaN(x) /\ ~FLt(x, Zero)

\* The estimators of the current state that were built by add alone, each
\* with the sequence it was built from.
Built == {<<b, xb>>} \cup (IF merged THEN {} ELSE {<<a, xa>>})

\* What the merge test compares.
Queries(e) ==
    <<Kurtosis_len(e), Kurtosis_mean(e), Kurtosis_sample_variance(e),
      Kurtosis_skewness_sq(e), Kurtosis_kurtosis(e)>>

\* The five fields of the estimator chain.
Fields(e) ==
    <<e.avg.avg.avg.n, e.avg.avg.avg.avg, e.avg.avg.sum_2, e.avg.sum_3, e.sum_4>>

\* a.merge(&b) has just run on two estimators built by add alone.
MergedBuilt == op = "merge" /\ ~pre.merged

----------------------------------------------------------------------------
\* C1: splitting a sequence at any index, building an estimator from each
\* part and merging left.merge(right) gives the same len(), mean(),
\* sample_variance(), skewness() and kurtosis() as adding the whole sequence.
C1_SplitMerge ==
    MergedBuilt => Queries(a) = Queries(from_iter(pre.xa \o pre.xb))

\* The same, for the sequences that are not empty: the only split that
\* differs is the empty sequence split into two empty parts.
SplitMergeNonEmpty ==
    (MergedBuilt /\ pre.xa \o pre.xb # <<>>) =>
        /\ Queries(a) = Queries(from_iter(pre.xa \o pre.xb))
        /\ Fields(a) = Fields(from_iter(pre.xa \o pre.xb))

\* C2: merging two empty estimators divides by no zero count and produces
\* no NaN; the result is empty with sum_4 = 0 and kurtosis() = 0.
C2_MergeEmptyGuarded ==
    (op = "merge" /\ Kurtosis_len(pre.a) = 0 /\ Kurtosis_len(pre.b) = 0) =>
        /\ ~IsNaN(a.sum_4)
        /\ Kurtosis_is_empty(a)
        /\ FEq(a.sum_4, Zero)
        /\ FEq(Kurtosis_kurtosis(a), Zero)

\* C3: an estimator with no observation answers 0 to mean(),
\* sample_variance(), population_variance(), error_mean(), skewness() and
\* kurtosis(); after exactly one add(x), mean() = x and the others are 0.
C3_FewerThanTwo ==
    \A p \in Built :
        LET e == p[1]
            xs == p[2]
            zeros == /\ FEq(Kurtosis_sample_variance(e), Zero)
                     /\ FEq(Kurtosis_population_variance(e), Zero)
                     /\ FEq(Kurtosis_error_mean_sq(e), Zero)
                     /\ FEq(Kurtosis_skewness_sq(e), Zero)
                     /\ FEq(Kurtosis_kurtosis(e), Zero)
        IN  /\ Len(xs) = 0 => (FEq(Kurtosis_mean(e), Zero) /\ zeros)
            /\ Len(xs) = 1 => (FEq(Kurtosis_mean(e), Lit(xs[1])) /\ zeros)

C3_Witness == op = "add_b" /\ Len(xb) = 1 /\ xb[1] = 2 /\ Len(xa) = 0 /\ ~merged

\* C4: after adding the same value k >= 1 times, sum_2, sum_3 and sum_4 are
\* 0 and sample_variance(), population_variance(), error_mean(), skewness()
\* and kurtosis() are 0.
C4_ConstantSequence ==
    \A p \in Built :
        LET e == p[1]
            xs == p[2]
        IN  (Len(xs) >= 1 /\ IsConstant(xs)) =>
                /\ FEq(e.avg.avg.sum_2, Zero)
                /\ FEq(e.avg.sum_3, Zero)
                /\ FEq(e.sum_4, Zero)
                /\ FEq(Kurtosis_sample_variance(e), Zero)
                /\ FEq(Kurtosis_population_variance(e), Zero)
                /\ FEq(Kurtosis_error_mean_sq(e), Zero)
                /\ FEq(Kurtosis_skewness_sq(e), Zero)
                /\ FEq(Kurtosis_kurtosis(e), Zero)

C4_Witness == op = "add_b" /\ xb = <<2, 2, 2>>

\* C5: merge is commutative: A after A.merge(B) has the state B has after
\* B.merge(A), and every query answers the same for both.
C5_MergeCommutes ==
    MergedBuilt =>
        /\ Fields(a) = Fields(Kurtosis_merge(pre.b, pre.a))
        /\ Queries(a) = Queries(Kurtosis_merge(pre.b, pre.a))
        /\ Kurtosis_population_variance(a)
             = Kurtosis_population_variance(Kurtosis_merge(pre.b, pre.a))
        /\ Kurtosis_error_mean_sq(a)
             = Kurtosis_error_mean_sq(Kurtosis_merge(pre.b, pre.a))

C5_Witness ==
    /\ MergedBuilt
    /\ pre.xa = <<2, 0>>
    /\ pre.xb = <<-1, -1>>
    /\ ~FEq(a.avg.sum_3, Zero)

\* C6: merging an empty estimator into a non-empty E leaves E's count,
\* mean, sum_2, sum_3 and sum_4 unchanged, and merging a non-empty E into an
\* empty estimator makes the empty one adopt E's state.
C6_EmptyIdentity ==
    /\ (MergedBuilt /\ pre.xa # <<>> /\ pre.xb = <<>>) =>
           /\ Fields(a) = Fields(pre.a)
           /\ FEq(Kurtosis_merge_term_4(pre.a, pre.b), Zero)
           /\ FEq(Kurtosis_merge_term_2(pre.a, pre.b), Zero)
           /\ FEq(Kurtosis_merge_term_3(pre.a, pre.b), Zero)
    /\ (MergedBuilt /\ pre.xa = <<>> /\ pre.xb # <<>>) => Fields(a) = Fields(pre.b)

C6_Witness ==
    /\ MergedBuilt
    /\ pre.xa = <<2, 0, 0>>
    /\ pre.xb = <<>>
    /\ ~FEq(a.sum_4, Zero)

\* The other half of C6: a non-empty estimator merged into an empty one.
AdoptWitness == MergedBuilt /\ pre.xa = <<>> /\ pre.xb = <<2, 0, 0>>

\* C7: len() is the number of observations contributed: add(x) adds 1,
\* merge(other) adds other.len() and leaves other unchanged, and is_empty()
\* is true exactly when len() = 0.
C7_LenCounts ==
    /\ Kurtosis_len(a) = Len(xa)
    /\ Kurtosis_len(b) = Len(xb)
    /\ op = "add_a" => Kurtosis_len(a) = Kurtosis_len(pre.a) + 1
    /\ op = "add_b" => Kurtosis_len(b) = Kurtosis_len(pre.b) + 1
    /\ op = "merge" => /\ Kurtosis_len(a) = Kurtosis_len(pre.a) + Kurtosis_len(pre.b)
                       /\ b = pre.b
    /\ Kurtosis_is_empty(a) <=> Kurtosis_len(a) = 0
    /\ Kurtosis_is_empty(b) <=> Kurtosis_len(b) = 0

C7_Witness ==
    /\ op = "merge"
    /\ Kurtosis_len(pre.a) = 2
    /\ Kurtosis_len(pre.b) = 2
    /\ Kurtosis_len(a) = 4

\* C8 as stated: after adds alone, sum_4 is the sum of (x_i - mu_running)^4
\* with mu_running the running mean at the time x_i was added (read either
\* as the mean just before or as the mean just after x_i is added);
\* sum_4 >= 0, and sum_4 = 0 when n <= 1.
C8_RunningMeanSum ==
    \A p \in Built :
        LET e == p[1]
            xs == p[2]
        IN  /\ \/ e.sum_4 = RunningSum(xs, 4, 0, Len(xs))
               \/ e.sum_4 = RunningSum(xs, 4, 1, Len(xs))
            /\ FNonNeg(e.sum_4)
            /\ Len(xs) <= 1 => FEq(e.sum_4, Zero)

\* C8 amended: after adds alone, sum_4 is the sum of (x_i - m)^4 with m the
\* mean of all the observations added so far; sum_4 >= 0, and sum_4 = 0
\* when n <= 1.
C8_CentralSum ==
    \A p \in Built :
        LET e == p[1]
            xs == p[2]
        IN  /\ e.sum_4 = CentralSum(xs, 4)
            /\ FNonNeg(e.sum_4)
            /\ Len(xs) <= 1 => FEq(e.sum_4, Zero)

C8_Witness ==
    /\ op = "add_b"
    /\ xb = <<0, 2, -1>>
    /\ b.sum_4 # RunningSum(xb, 4, 0, 3)
    /\ b.sum_4 # RunningSum(xb, 4, 1, 3)

\* C10: after adding x_1..x_n, sum_4 and sum_2 are the two-pass central sums
\* about the mean of the whole sequence, kurtosis() is n*sum_4/sum_2^2 - 3
\* of those sums when the sequence is not constant and 0 when sum_4 = 0, and
\* sum_4 # 0 implies sum_2 # 0.
C10_TwoPassReference ==
    \A p \in Built :
        LET e == p[1]
            xs == p[2]
            s4 == CentralSum(xs, 4)
            s2 == CentralSum(xs, 2)
        IN  /\ e.sum_4 = s4
            /\ e.avg.avg.sum_2 = s2
            /\ ~IsConstant(xs) =>
                   Kurtosis_kurtosis(e)
                     = FSub(FDiv(FMul(Lit(Len(xs)), s4), FMul(s2, s2)), Lit(3))
            /\ FEq(e.sum_4, Zero) => FEq(Kurtosis_kurtosis(e), Zero)
            /\ ~FEq(e.sum_4, Zero) => ~FEq(e.avg.avg.sum_2, Zero)
            /\ IsFinite(Kurtosis_kurtosis(e))

C10_Witness ==
    /\ op = "add_b"
    /\ xb = <<2, 0, 0, -1>>
    /\ ~FEq(Kurtosis_kurtosis(b), Zero)

----------------------------------------------------------------------------
\* C9: within one add(x), delta is computed from the mean held before the
\* add, the count is incremented before n is read, the sum_4 increment is
\* evaluated with the sum_2 and sum_3 held before the add, and sum_3, sum_2
\* and the mean are written only after sum_4, each level reading the inner
\* power-sums before this add overwrites them.
C9_OuterToInner ==
    LET old    == pre.a
        inc    == Kurtosis_increment(old)
        sum_4w == Kurtosis_add_inner_sum_4(inc, loc.delta, loc.delta_n)
        sum_3w == Skewness_add_inner_sum_3(inc.avg, loc.delta, loc.delta_n)
        sum_2w == Variance_add_inner_sum_2(inc.avg.avg, loc.delta, loc.delta_n)
        inner  == <<a.avg.sum_3, a.avg.avg.sum_2, a.avg.avg.avg.avg>>
        inner0 == <<old.avg.sum_3, old.avg.avg.sum_2, old.avg.avg.avg.avg>>
    IN  /\ pc \in {"increment", "n", "sum_4", "sum_3", "sum_2", "mean"} =>
               loc.delta = FSub(loc.x, Kurtosis_mean(old))
        /\ pc \in {"sum_4", "sum_3", "sum_2", "mean"} =>
               /\ loc.n = approx_from(Kurtosis_len(old) + 1)
               /\ loc.delta_n = FDiv(loc.delta, loc.n)
        /\ pc = "sum_4" => (a.sum_4 = old.sum_4 /\ inner = inner0)
        /\ pc = "sum_3" => (a.sum_4 = sum_4w /\ inner = inner0)
        /\ pc = "sum_2" =>
               /\ a.sum_4 = sum_4w
               /\ a.avg.sum_3 = sum_3w
               /\ a.avg.avg.sum_2 = old.avg.avg.sum_2
               /\ a.avg.avg.avg.avg = old.avg.avg.avg.avg
        /\ pc = "mean" =>
               /\ a.sum_4 = sum_4w
               /\ a.avg.sum_3 = sum_3w
               /\ a.avg.avg.sum_2 = sum_2w
               /\ a.avg.avg.avg.avg = old.avg.avg.avg.avg
        /\ (pc = "idle" /\ op = "add_a") => a = Kurtosis_add(old, loc.x)

C9_Witness ==
    /\ pc = "sum_3"
    /\ xa = <<0, 2>>
    /\ loc.x = Lit(-1)
    /\ a.sum_4 # pre.a.sum_4
    /\ ~FEq(a.avg.sum_3, Zero) \/ ~FEq(a.avg.avg.sum_2, Zero)

====
